---- MODULE Spec2Model ----
(***************************************************************************)
(* Model of terraform-provider-remote: the connection pool of apiClient    *)
(* (getRemoteClient / closeRemoteClient), the connection identity hash,    *)
(* the resource identifier, and the shell based file operations of         *)
(* RemoteClient.                                                           *)
(***************************************************************************)
EXTENDS Integers, Sequences, FiniteSets, TLC

(***************************************************************************)
(* Bounds of the model.                                                    *)
(***************************************************************************)
\* largest max_sessions value configured in the model (smallest is 0)
MaxSessionsCap == 2
\* getRemoteClient is not called any more once this many clients were built
MaxClients == 3
\* a release without acquisition is not started once the count is this far below 0
MaxUnderflow == 1
\* number of attribute settings applied to the two connection configurations
MaxEdits == 2

\* the concurrent callers of the pool (one goroutine per in-flight file operation)
Callers == {"c1", "c2"}
\* the connection identities (values of resourceConnectionHash) the callers use
Identities == {"idA", "idB"}

\* no goroutine holds the mutex
NoOne == "none"
\* the nil *RemoteClient / a key that is absent from the remoteClients map
NoClient == 0
\* the caller is in no call of the pool and holds no client: it has no connectionID
NoID == "none"

VARIABLES
    maxSessions,    \* apiClient.maxSessions
    mux,            \* apiClient.mux: the caller holding it, or NoOne
    remoteClients,  \* apiClient.remoteClients: identity -> client, NoClient if absent
    activeSessions, \* apiClient.activeSessions: identity -> int (0 for a missing key)
    pc,             \* position of each caller
    connID,         \* the local connectionID of the call each caller is in
    held,           \* the client a caller got from getRemoteClient and still uses
    err,            \* the error the caller's last call returned
    nextClient,     \* the next client the connection builder will allocate
    closeCalls,     \* per built client: how often Close was called on it
    builtFor,       \* per built client: the identity it was built for
    badUnlock,      \* Unlock ran in a caller that did not hold the mutex
    panicked,       \* Close was called on a nil client
    waited,         \* the caller's current or last getRemoteClient polled at the ceiling
    d1,             \* a schema.ResourceData: attribute key -> value
    d2,             \* a second schema.ResourceData
    edits,          \* number of attribute settings applied so far
    hashes,         \* <<resourceConnectionHash(d1), resourceConnectionHash(d2)>> once computed
    resID,          \* the Id setResourceID stored for d1, "" before
    dpc,            \* position of the caller of remoteClientFromResourceData
    dsel,           \* the ResourceData d the connection is built from
    stages,         \* the stages of the connection started so far: [stage, ok]
    links,          \* the connections of the client: proxy, tunnel, target
    dresult,        \* what remoteClientFromResourceData returned: [client, err]
    fpc,            \* position of the caller of a RemoteClient file operation
    fop,            \* the file operation called last
    fpath,          \* the path argument of the file operation
    fsudo,          \* the sudo argument of the file operation
    sessions,       \* the ssh sessions the operation opened: [cmd, open]
    fout,           \* the bytes the remote command wrote to stdout
    fresult,        \* what the operation returned: [val, err]
    farg,           \* the other argument of the operation: content, permissions, owner, group
    clients,        \* the scp and sftp clients the operation opened: [kind, open]
    remoteFS,       \* the files of the remote host: name -> <<content>>, << >> if absent
    lastWrite       \* the last WriteFile that succeeded, while no write or delete followed

poolVars == <<maxSessions, mux, remoteClients, activeSessions, pc, connID, held,
              err, nextClient, closeCalls, builtFor, badUnlock, panicked, waited>>

dataVars == <<d1, d2, edits, hashes, resID>>

dialVars == <<dpc, dsel, stages, links, dresult>>

connVars == <<dataVars, dialVars>>

fileVars == <<fpc, fop, fpath, fsudo, sessions, fout, fresult, farg, clients,
              remoteFS, lastWrite>>

vars == <<poolVars, connVars, fileVars>>

(***************************************************************************)
(* apiClient: the value configure builds.                                  *)
(***************************************************************************)
\* the schema of max_sessions is a plain TypeInt without validation
MaxSessionsValues == 0..MaxSessionsCap

configure ==
    /\ maxSessions \in MaxSessionsValues
    /\ mux = NoOne
    /\ remoteClients = [d \in Identities |-> NoClient]
    /\ activeSessions = [d \in Identities |-> 0]

InitPool ==
    /\ configure
    /\ pc = [p \in Callers |-> "idle"]
    /\ connID = [p \in Callers |-> NoID]
    /\ held = [p \in Callers |-> NoClient]
    /\ err = [p \in Callers |-> "nil"]
    /\ nextClient = 1
    /\ closeCalls = << >>
    /\ builtFor = << >>
    /\ badUnlock = FALSE
    /\ panicked = FALSE
    /\ waited = [p \in Callers |-> FALSE]

(***************************************************************************)
(* sync.Mutex                                                              *)
(***************************************************************************)
\* variant: the mutex is left locked
Unlock_Missing(p) == UNCHANGED <<mux, badUnlock>>

\* c.mux.Unlock() in caller p: the mutex is free afterwards; unlocking a
\* mutex the caller does not hold is recorded
Unlock(p) ==
    /\ mux' = NoOne
    /\ badUnlock' = (badUnlock \/ mux # p)

(***************************************************************************)
(* getRemoteClient                                                         *)
(***************************************************************************)
\* the positions of a caller inside getRemoteClient
AcquirePCs == {"acq_lock", "acq_check", "acq_build"}

\* a caller enters getRemoteClient for identity d
GetRemoteClientCall(p, d) ==
    /\ pc[p] = "idle"
    /\ held[p] = NoClient
    /\ nextClient + Cardinality({q \in DOMAIN pc : pc[q] \in AcquirePCs}) <= MaxClients
    /\ pc' = [pc EXCEPT ![p] = "acq_lock"]
    /\ connID' = [connID EXCEPT ![p] = d]
    /\ err' = [err EXCEPT ![p] = "nil"]
    /\ waited' = [waited EXCEPT ![p] = FALSE]
    /\ UNCHANGED <<maxSessions, mux, remoteClients, activeSessions, held,
                   nextClient, closeCalls, builtFor, badUnlock, panicked>>
    /\ UNCHANGED <<connVars, fileVars>>

\* c.mux.Lock() at the head of the loop
AcqLock(p) ==
    /\ pc[p] = "acq_lock"
    /\ mux = NoOne
    /\ mux' = p
    /\ pc' = [pc EXCEPT ![p] = "acq_check"]
    /\ UNCHANGED <<maxSessions, remoteClients, activeSessions, connID, held, err,
                   nextClient, closeCalls, builtFor, badUnlock, panicked, waited>>
    /\ UNCHANGED <<connVars, fileVars>>

\* variant: the comparison the wrong way round
AtCeiling_Flipped(d) == activeSessions[d] <= maxSessions

\* the ceiling test of an existing entry
AtCeiling(d) == activeSessions[d] >= maxSessions

\* variant: the lookup never finds the entry
EntryFound_Never(d) == FALSE

\* client, ok := c.remoteClients[connectionID]; ok
EntryFound(d) == remoteClients[d] # NoClient

\* variant: the mutex is released before the connection builder is called
AcqCheck_BuildUnlocked(p) ==
    /\ pc[p] = "acq_check"
    /\ LET d == connID[p] IN
       IF EntryFound(d)
       THEN IF AtCeiling(d)
            THEN /\ Unlock(p)
                 /\ pc' = [pc EXCEPT ![p] = "acq_lock"]
                 /\ waited' = [waited EXCEPT ![p] = TRUE]
                 /\ UNCHANGED <<activeSessions, held>>
            ELSE /\ activeSessions' = [activeSessions EXCEPT ![d] = @ + 1]
                 /\ held' = [held EXCEPT ![p] = remoteClients[d]]
                 /\ pc' = [pc EXCEPT ![p] = "idle"]
                 /\ Unlock(p)
                 /\ UNCHANGED waited
       ELSE /\ pc' = [pc EXCEPT ![p] = "acq_build"]
            /\ Unlock(p)
            /\ UNCHANGED <<activeSessions, held, waited>>
    /\ UNCHANGED <<maxSessions, remoteClients, connID, err, nextClient,
                   closeCalls, builtFor, panicked>>
    /\ UNCHANGED <<connVars, fileVars>>

\* the lookup and the branch for an existing entry; without an entry the
\* caller goes on to the connection builder, the mutex still held
AcqCheck(p) ==
    /\ pc[p] = "acq_check"
    /\ LET d == connID[p] IN
       IF EntryFound(d)
       THEN IF AtCeiling(d)
            THEN /\ Unlock(p)
                 /\ pc' = [pc EXCEPT ![p] = "acq_lock"]
                 /\ waited' = [waited EXCEPT ![p] = TRUE]
                 /\ UNCHANGED <<activeSessions, held>>
            ELSE /\ activeSessions' = [activeSessions EXCEPT ![d] = @ + 1]
                 /\ held' = [held EXCEPT ![p] = remoteClients[d]]
                 /\ pc' = [pc EXCEPT ![p] = "idle"]
                 /\ Unlock(p)
                 /\ UNCHANGED waited
       ELSE /\ pc' = [pc EXCEPT ![p] = "acq_build"]
            /\ UNCHANGED <<mux, badUnlock, activeSessions, held, waited>>
    /\ UNCHANGED <<maxSessions, remoteClients, connID, err, nextClient,
                   closeCalls, builtFor, panicked>>
    /\ UNCHANGED <<connVars, fileVars>>

\* variant: the entry is stored before the error is looked at
EntriesAfterBuildError_Partial(d) == [remoteClients EXCEPT ![d] = nextClient]

\* the pool map after the builder failed: the early return stores nothing
EntriesAfterBuildError(d) == remoteClients

\* remoteClientFromResourceData returns, with a client or with an error
AcqBuild(p) ==
    /\ pc[p] = "acq_build"
    /\ LET d == connID[p] IN
       \E ok \in BOOLEAN :
          IF ok
          THEN /\ remoteClients' = [remoteClients EXCEPT ![d] = nextClient]
               /\ activeSessions' = [activeSessions EXCEPT ![d] = 1]
               /\ held' = [held EXCEPT ![p] = nextClient]
               /\ nextClient' = nextClient + 1
               /\ closeCalls' = Append(closeCalls, 0)
               /\ builtFor' = Append(builtFor, d)
               /\ UNCHANGED <<err, connID>>
          ELSE /\ remoteClients' = EntriesAfterBuildError(d)
               /\ err' = [err EXCEPT ![p] = "build"]
               /\ connID' = [connID EXCEPT ![p] = NoID]
               /\ UNCHANGED <<activeSessions, held, nextClient, closeCalls, builtFor>>
    /\ pc' = [pc EXCEPT ![p] = "idle"]
    /\ Unlock(p)
    /\ UNCHANGED <<maxSessions, panicked, waited>>
    /\ UNCHANGED <<connVars, fileVars>>

(***************************************************************************)
(* closeRemoteClient                                                       *)
(***************************************************************************)
\* a caller that holds a client releases it
ReleaseCall(p) ==
    /\ pc[p] = "idle"
    /\ held[p] # NoClient
    /\ pc' = [pc EXCEPT ![p] = "rel_lock"]
    /\ held' = [held EXCEPT ![p] = NoClient]
    /\ err' = [err EXCEPT ![p] = "nil"]
    /\ waited' = [waited EXCEPT ![p] = FALSE]
    /\ UNCHANGED <<maxSessions, mux, remoteClients, activeSessions, connID,
                   nextClient, closeCalls, builtFor, badUnlock, panicked>>
    /\ UNCHANGED <<connVars, fileVars>>

\* a caller that holds nothing calls closeRemoteClient for identity d:
\* release without acquire, after a failed acquire, or a second release
StrayReleaseCall(p, d) ==
    /\ pc[p] = "idle"
    /\ held[p] = NoClient
    /\ activeSessions[d] > -MaxUnderflow
    /\ pc' = [pc EXCEPT ![p] = "rel_lock"]
    /\ connID' = [connID EXCEPT ![p] = d]
    /\ err' = [err EXCEPT ![p] = "nil"]
    /\ waited' = [waited EXCEPT ![p] = FALSE]
    /\ UNCHANGED <<maxSessions, mux, remoteClients, activeSessions, held,
                   nextClient, closeCalls, builtFor, badUnlock, panicked>>
    /\ UNCHANGED <<connVars, fileVars>>

\* c.mux.Lock() of closeRemoteClient
RelLock(p) ==
    /\ pc[p] = "rel_lock"
    /\ mux = NoOne
    /\ mux' = p
    /\ pc' = [pc EXCEPT ![p] = "rel_body"]
    /\ UNCHANGED <<maxSessions, remoteClients, activeSessions, connID, held, err,
                   nextClient, closeCalls, builtFor, badUnlock, panicked, waited>>
    /\ UNCHANGED <<connVars, fileVars>>

\* variant: the entry is left in the map
DeleteEntry_Keep(d) == remoteClients

\* variant: the whole map is emptied
DeleteEntry_All(d) == [e \in Identities |-> NoClient]

\* delete(c.remoteClients, connectionID)
DeleteEntry(d) == [remoteClients EXCEPT ![d] = NoClient]

\* variant: the client is dropped without Close
CloseClient_Skip(c) == closeCalls

\* client.Close() on a client the builder returned
CloseClient(c) == [closeCalls EXCEPT ![c] = @ + 1]

\* variant: the entry is removed only after a Close that succeeded
EntriesAfterClose_KeptOnError(d, closeErr) ==
    IF closeErr = "nil" THEN DeleteEntry(d) ELSE remoteClients

\* the map once client.Close() has returned closeErr: the delete ran before
\* Close was called
EntriesAfterClose(d, closeErr) == DeleteEntry(d)

\* variant: every release closes the client
LastRelease_Any(n) == TRUE

\* if c.activeSessions[connectionID] == 0, n the count after the decrement
LastRelease(n) == n = 0

\* the body of closeRemoteClient under the mutex, and the deferred Unlock
RelBody(p) ==
    /\ pc[p] = "rel_body"
    /\ LET d == connID[p]
           n == activeSessions[d] - 1
           client == remoteClients[d]
       IN  /\ activeSessions' = [activeSessions EXCEPT ![d] = n]
           /\ IF LastRelease(n)
              THEN IF client = NoClient
                   THEN /\ remoteClients' = DeleteEntry(d)
                        /\ panicked' = TRUE
                        /\ UNCHANGED <<closeCalls, err>>
                   ELSE /\ closeCalls' = CloseClient(client)
                        /\ \E closeErr \in {"nil", "close"} :
                              /\ remoteClients' = EntriesAfterClose(d, closeErr)
                              /\ err' = [err EXCEPT ![p] = closeErr]
                        /\ UNCHANGED panicked
              ELSE UNCHANGED <<remoteClients, closeCalls, err, panicked>>
    /\ pc' = [pc EXCEPT ![p] = "idle"]
    /\ connID' = [connID EXCEPT ![p] = NoID]
    /\ Unlock(p)
    /\ UNCHANGED <<maxSessions, held, nextClient, builtFor, waited>>
    /\ UNCHANGED <<connVars, fileVars>>

NextPool ==
    \E p \in Callers :
        \/ \E d \in Identities : GetRemoteClientCall(p, d)
        \/ AcqLock(p)
        \/ AcqCheck(p)
        \/ AcqBuild(p)
        \/ ReleaseCall(p)
        \/ \E d \in Identities : StrayReleaseCall(p, d)
        \/ RelLock(p)
        \/ RelBody(p)

(***************************************************************************)
(* schema.ResourceData: the attributes the provider reads                  *)
(***************************************************************************)
\* the attributes of connectionSchemaResource that identify a connection
ConnAttrs == {"host", "user", "port", "password", "private_key",
              "private_key_path", "private_key_env_var", "agent"}

\* prefixKey of connFromResourceData: "conn.0" and "host" give "conn.0.host"
prefixKey(prefix, key) == prefix \o "." \o key

ConnKeys == {prefixKey("conn.0", a) : a \in ConnAttrs}
ProxyKeys == {prefixKey("proxy_conn.0", a) : a \in ConnAttrs}
\* "proxy_conn.#" is the length of the proxy_conn list: 1 when the block is configured
DataKeys == ConnKeys \cup ProxyKeys \cup {"path", "proxy_conn.#"}

IntKeys == {"conn.0.port", "proxy_conn.0.port", "proxy_conn.#"}
BoolKeys == {"conn.0.agent", "proxy_conn.0.agent"}

\* the zero value of an attribute's type, which is also what Get returns when unset
ZeroValue(key) ==
    IF key \in IntKeys THEN 0 ELSE IF key \in BoolKeys THEN FALSE ELSE ""

\* d.Get(key)
Get(d, key) == d[key]

\* the second result of d.GetOk(key): the attribute is set to a non-zero value
GetOk(d, key) == d[key] # ZeroValue(key)

\* the values the model gives an attribute
KeyValues(key) ==
    IF key \in {"conn.0.port", "proxy_conn.0.port"} THEN {0, 22, 2222}
    ELSE IF key \in BoolKeys THEN BOOLEAN
    ELSE IF key = "conn.0.host" THEN {"h", "g"}
    ELSE IF key = "proxy_conn.0.host" THEN {"p", ""}
    ELSE IF key \in {"conn.0.user", "proxy_conn.0.user"} THEN {"root", "bob", ""}
    ELSE IF key = "path" THEN {"/tmp/x", "/tmp/y"}
    ELSE {"", "s", "t"}

\* a resource with a conn block for root@h (port at its default) and no proxy_conn
BaseData ==
    [key \in DataKeys |->
        IF key = "conn.0.host" THEN "h"
        ELSE IF key = "conn.0.user" THEN "root"
        ELSE IF key = "conn.0.port" THEN 22
        ELSE IF key = "path" THEN "/tmp/x"
        ELSE ZeroValue(key)]

\* no connection of the client exists
NoLinks == [proxy |-> "none", tunnel |-> "none", target |-> "none"]

\* remoteClientFromResourceData has returned nothing yet
NoDialResult == [client |-> FALSE, err |-> "none"]

InitConn ==
    /\ d1 = BaseData
    /\ d2 = BaseData
    /\ edits = 0
    /\ hashes = << >>
    /\ resID = ""
    /\ dpc = "idle"
    /\ dsel = BaseData
    /\ stages = << >>
    /\ links = NoLinks
    /\ dresult = NoDialResult

\* the configuration may change until an identity or an Id was computed from it
Configuring == hashes = << >> /\ resID = "" /\ edits < MaxEdits

\* a proxy_conn block is added to the configuration; port gets its schema default
WithProxyBlock(d) ==
    [d EXCEPT !["proxy_conn.#"] = 1, !["proxy_conn.0.host"] = "p",
              !["proxy_conn.0.user"] = "root", !["proxy_conn.0.port"] = 22]

AddProxyBlock ==
    /\ Configuring
    /\ \/ d1["proxy_conn.#"] = 0 /\ d1' = WithProxyBlock(d1) /\ UNCHANGED d2
       \/ d2["proxy_conn.#"] = 0 /\ d2' = WithProxyBlock(d2) /\ UNCHANGED d1
    /\ edits' = edits + 1
    /\ UNCHANGED <<hashes, resID>>
    /\ UNCHANGED <<dialVars, poolVars, fileVars>>

\* the attributes of a block can be set when the block is there
Settable(d) ==
    ConnKeys \cup {"path"} \cup (IF d["proxy_conn.#"] = 1 THEN ProxyKeys ELSE {})

SetAttr ==
    /\ Configuring
    /\ \/ \E key \in Settable(d1) : \E v \in KeyValues(key) \ {d1[key]} :
              d1' = [d1 EXCEPT ![key] = v] /\ UNCHANGED d2
       \/ \E key \in Settable(d2) : \E v \in KeyValues(key) \ {d2[key]} :
              d2' = [d2 EXCEPT ![key] = v] /\ UNCHANGED d1
    /\ edits' = edits + 1
    /\ UNCHANGED <<hashes, resID>>
    /\ UNCHANGED <<dialVars, poolVars, fileVars>>

(***************************************************************************)
(* strconv and strings                                                     *)
(***************************************************************************)
Digit(n) == CASE n = 0 -> "0" [] n = 1 -> "1" [] n = 2 -> "2" [] n = 3 -> "3"
              [] n = 4 -> "4" [] n = 5 -> "5" [] n = 6 -> "6" [] n = 7 -> "7"
              [] n = 8 -> "8" [] n = 9 -> "9"

RECURSIVE Itoa(_)
\* strconv.Itoa
Itoa(n) ==
    IF n < 0 THEN "-" \o Itoa(-n)
    ELSE IF n < 10 THEN Digit(n)
    ELSE Itoa(n \div 10) \o Digit(n % 10)

\* strconv.FormatBool
FormatBool(b) == IF b THEN "true" ELSE "false"

RECURSIVE Join(_, _)
\* strings.Join
Join(elems, sep) ==
    IF elems = << >> THEN ""
    ELSE IF Len(elems) = 1 THEN elems[1]
    ELSE elems[1] \o sep \o Join(Tail(elems), sep)

resourceStringWithDefault(d, key, defaultValue) ==
    IF GetOk(d, key) THEN Get(d, key) ELSE defaultValue

resourceIntWithDefault(d, key, defaultValue) ==
    IF GetOk(d, key) THEN Itoa(Get(d, key)) ELSE defaultValue

resourceBoolWithDefault(d, key, defaultValue) ==
    IF GetOk(d, key) THEN FormatBool(Get(d, key)) ELSE defaultValue

(***************************************************************************)
(* resourceConnectionHash and setResourceID                                *)
(***************************************************************************)
\* the elements resourceConnectionHash joins
HashElements(d) ==
    << Get(d, "conn.0.host"),
       Get(d, "conn.0.user"),
       Itoa(Get(d, "conn.0.port")),
       resourceStringWithDefault(d, "conn.0.password", ""),
       resourceStringWithDefault(d, "conn.0.private_key", ""),
       resourceStringWithDefault(d, "conn.0.private_key_path", ""),
       FormatBool(Get(d, "conn.0.agent")),
       resourceStringWithDefault(d, "proxy_conn.0.host", ""),
       resourceStringWithDefault(d, "proxy_conn.0.user", ""),
       resourceIntWithDefault(d, "proxy_conn.0.port", ""),
       resourceStringWithDefault(d, "proxy_conn.0.password", ""),
       resourceStringWithDefault(d, "proxy_conn.0.private_key", ""),
       resourceStringWithDefault(d, "proxy_conn.0.private_key_path", ""),
       resourceBoolWithDefault(d, "proxy_conn.0.agent", "") >>

resourceConnectionHash(d) == Join(HashElements(d), "::")

\* the Id setResourceID computes for resource d with connection conn
ResourceIDOf(d, conn) ==
    LET id == Get(conn, "conn.0.host") \o ":" \o Itoa(Get(conn, "conn.0.port"))
                 \o ":" \o Get(d, "path")
        proxy_host == resourceStringWithDefault(conn, "proxy_conn.0.host", "")
        proxy_port == resourceIntWithDefault(conn, "proxy_conn.0.port", "")
    IN  IF proxy_host # "" /\ proxy_port # ""
        THEN proxy_host \o ":" \o proxy_port \o "|" \o id
        ELSE id

\* both configurations are hashed, as getRemoteClient and closeRemoteClient do
\* with the data they are given
HashConnections ==
    /\ hashes = << >>
    /\ hashes' = <<resourceConnectionHash(d1), resourceConnectionHash(d2)>>
    /\ UNCHANGED <<d1, d2, edits, resID>>
    /\ UNCHANGED <<dialVars, poolVars, fileVars>>

\* setResourceID(d, conn), the resource carrying its own connection
setResourceID ==
    /\ resID = ""
    /\ resID' = ResourceIDOf(d1, d1)
    /\ UNCHANGED <<d1, d2, edits, hashes>>
    /\ UNCHANGED <<dialVars, poolVars, fileVars>>

NextConn == AddProxyBlock \/ SetAttr \/ HashConnections \/ setResourceID

(***************************************************************************)
(* remoteClientFromResourceData, NewRemoteClient, NewRemoteProxyClient     *)
(***************************************************************************)
\* the ResourceData the connection is built from
Selected == dsel

\* host := fmt.Sprintf("%s:%d", host, port) of connFromResourceData
HostPort(d, prefix) ==
    Get(d, prefixKey(prefix, "host")) \o ":" \o Itoa(Get(d, prefixKey(prefix, "port")))

\* _, ok := d.GetOk("proxy_conn"): the list has an element
HasProxyConn(d) == GetOk(d, "proxy_conn.#")

\* the host ProxyConnectionFromResourceData returns when it returns no error
ProxyHostOf(d) == IF HasProxyConn(d) THEN HostPort(d, "proxy_conn.0") ELSE ""

\* variant: the target is always dialed directly
ViaProxy_Never(proxyHost, hasConfig) == FALSE

\* proxyHost != "" && proxyClientConfig != nil
ViaProxy(proxyHost, hasConfig) == proxyHost # "" /\ hasConfig

\* the stage started last has succeeded
Succeeded == [stages EXCEPT ![Len(stages)].ok = TRUE]

\* the call returns an error and no client
DialFails(e) ==
    /\ dpc' = "idle"
    /\ dresult' = [client |-> FALSE, err |-> e]

\* the call returns the client and no error
DialReturns ==
    /\ dpc' = "idle"
    /\ dresult' = [client |-> TRUE, err |-> "nil"]

\* remoteClientFromResourceData(ctx, d) is called; it starts with
\* ConnectionFromResourceData
DialCall ==
    /\ dpc = "idle"
    /\ links.target # "open"
    /\ \E d \in {d1, d2} : dsel' = d
    /\ dpc' = "conn"
    /\ stages' = <<[stage |-> "conn", ok |-> FALSE]>>
    /\ links' = NoLinks
    /\ dresult' = NoDialResult
    /\ UNCHANGED <<dataVars, poolVars, fileVars>>

\* host, clientConfig, err := ConnectionFromResourceData(ctx, d): a key that
\* does not parse or an agent that cannot be reached is an error
D_Conn ==
    /\ dpc = "conn"
    /\ \E ok \in BOOLEAN :
          IF ok
          THEN /\ stages' = Append(Succeeded, [stage |-> "proxy_conn", ok |-> FALSE])
               /\ dpc' = "proxy_conn"
               /\ UNCHANGED dresult
          ELSE /\ DialFails("conn")
               /\ UNCHANGED stages
    /\ UNCHANGED <<dsel, links>>
    /\ UNCHANGED <<dataVars, poolVars, fileVars>>

\* proxyHost, proxyClientConfig, err := ProxyConnectionFromResourceData(ctx, d):
\* without a proxy_conn block it returns "", nil, nil; then the choice between
\* NewRemoteProxyClient and NewRemoteClient
D_ProxyConn ==
    /\ dpc = "proxy_conn"
    /\ \E ok \in (IF HasProxyConn(Selected) THEN BOOLEAN ELSE {TRUE}) :
          IF ok
          THEN LET next == IF ViaProxy(ProxyHostOf(Selected), HasProxyConn(Selected))
                           THEN "dial_proxy" ELSE "dial"
               IN  /\ stages' = Append(Succeeded, [stage |-> next, ok |-> FALSE])
                   /\ dpc' = next
                   /\ UNCHANGED dresult
          ELSE /\ DialFails("proxy_conn")
               /\ UNCHANGED stages
    /\ UNCHANGED <<dsel, links>>
    /\ UNCHANGED <<dataVars, poolVars, fileVars>>

\* NewRemoteClient: client, err := ssh.Dial("tcp", host, clientConfig)
D_Dial ==
    /\ dpc = "dial"
    /\ \E ok \in BOOLEAN :
          IF ok
          THEN /\ stages' = Succeeded
               /\ links' = [links EXCEPT !.target = "open"]
               /\ DialReturns
          ELSE /\ DialFails("dial")
               /\ UNCHANGED <<stages, links>>
    /\ UNCHANGED dsel
    /\ UNCHANGED <<dataVars, poolVars, fileVars>>

\* NewRemoteProxyClient: proxyClient, err := ssh.Dial("tcp", proxyHost, proxyClientConfig)
D_DialProxy ==
    /\ dpc = "dial_proxy"
    /\ \E ok \in BOOLEAN :
          IF ok
          THEN /\ stages' = Append(Succeeded, [stage |-> "tunnel", ok |-> FALSE])
               /\ links' = [links EXCEPT !.proxy = "open"]
               /\ dpc' = "tunnel"
               /\ UNCHANGED dresult
          ELSE /\ DialFails("dial_proxy")
               /\ UNCHANGED <<stages, links>>
    /\ UNCHANGED dsel
    /\ UNCHANGED <<dataVars, poolVars, fileVars>>

\* conn, err := proxyClient.Dial("tcp", host); the error return closes nothing
D_Tunnel ==
    /\ dpc = "tunnel"
    /\ \E ok \in BOOLEAN :
          IF ok
          THEN /\ stages' = Append(Succeeded, [stage |-> "handshake", ok |-> FALSE])
               /\ links' = [links EXCEPT !.tunnel = "open"]
               /\ dpc' = "handshake"
               /\ UNCHANGED dresult
          ELSE /\ DialFails("tunnel")
               /\ UNCHANGED <<stages, links>>
    /\ UNCHANGED dsel
    /\ UNCHANGED <<dataVars, poolVars, fileVars>>

\* ncc, chans, reqs, err := ssh.NewClientConn(conn, host, clientConfig) and
\* ssh.NewClient; the error return closes nothing itself, and what the ssh
\* package does with conn after a failed handshake is left open
D_Handshake ==
    /\ dpc = "handshake"
    /\ \E ok \in BOOLEAN :
          IF ok
          THEN /\ stages' = Succeeded
               /\ links' = [links EXCEPT !.target = "open"]
               /\ DialReturns
          ELSE /\ DialFails("handshake")
               /\ \E tunnel \in {"open", "closed"} :
                     links' = [links EXCEPT !.tunnel = tunnel]
               /\ UNCHANGED stages
    /\ UNCHANGED dsel
    /\ UNCHANGED <<dataVars, poolVars, fileVars>>

\* RemoteClient.Close(): c.sshClient.Close() closes the connection to the
\* target and with it the net.Conn it runs on
D_Close ==
    /\ dpc = "idle"
    /\ dresult.client
    /\ links.target = "open"
    /\ links' = [links EXCEPT !.target = "closed",
                              !.tunnel = IF @ = "open" THEN "closed" ELSE @]
    /\ UNCHANGED <<dpc, dsel, stages, dresult>>
    /\ UNCHANGED <<dataVars, poolVars, fileVars>>

\* connections are built from configurations with and without a proxy_conn block
NextDial ==
    \/ AddProxyBlock
    \/ DialCall
    \/ D_Conn
    \/ D_ProxyConn
    \/ D_Dial
    \/ D_DialProxy
    \/ D_Tunnel
    \/ D_Handshake
    \/ D_Close

(***************************************************************************)
(* RemoteClient: commands over ssh sessions                                *)
(***************************************************************************)
\* the path arguments, as the words a shell splits them into
PathWords == {<<"/tmp/x">>, <<"/tmp/a", "b">>}

FilePaths == {Join(words, " ") : words \in PathWords}

\* the words the remote shell makes of an unquoted path in a command line
Fields(path) == CHOOSE words \in PathWords : Join(words, " ") = path

\* the names a file can have on the remote host
FileNames == FilePaths \cup UNION {{words[i] : i \in DOMAIN words} : words \in PathWords}

Contents == {"hello", "bye"}

\* no WriteFile to read back
NoWrite == [path |-> "", content |-> "", sudo |-> FALSE]

\* how a command ends on the remote side: exit status 0, a non-zero exit
\* status, or the transport failing while it runs
RunOutcomes == {"ok", "exit", "transport"}

\* the nil error
NoErr == [kind |-> "nil"]

\* what a file operation has returned while it is still running
NoResult == [val |-> "none", err |-> NoErr]

\* the error of sshClient.NewSession()
SessionErr == [kind |-> "raw", err |-> "session"]

\* the bytes a failing command leaves on stderr
StderrOf(outcome) == IF outcome = "exit" THEN "msg" ELSE ""

\* run(s, cmd): a failure is wrapped into Error{cmd, err, stderr}
run(cmd, outcome) ==
    IF outcome # "ok"
    THEN [kind |-> "Error", cmd |-> cmd, err |-> outcome, stderr |-> StderrOf(outcome)]
    ELSE NoErr

\* session.Run(cmd) and session.Output(cmd): the error of the ssh package as it is
sessionRun(cmd, outcome) ==
    IF outcome # "ok" THEN [kind |-> "raw", err |-> outcome] ELSE NoErr

\* the command of an operation, behind sudo when asked for
WithSudo(cmd, sudo) == IF sudo THEN "sudo " \o cmd ELSE cmd

\* a session sshClient.NewSession() returned: no command has run on it
NewSession == [cmd |-> "", outcome |-> "none", open |-> TRUE, runs |-> 0]

\* the last session opened runs cmd, which ends with outcome
Ran(ss, cmd, outcome) ==
    [ss EXCEPT ![Len(ss)] =
        [@ EXCEPT !.cmd = cmd, !.outcome = outcome, !.runs = @ + 1]]

\* variant: only the session opened last is closed
DeferredClose_LastOnly(ss) ==
    [i \in DOMAIN ss |-> IF i = Len(ss) THEN [ss[i] EXCEPT !.open = FALSE] ELSE ss[i]]

\* the deferred session.Close() calls of the returning operation
DeferredClose(ss) == [i \in DOMAIN ss |-> [ss[i] EXCEPT !.open = FALSE]]

InitFile ==
    /\ fpc = "idle"
    /\ fop = "none"
    /\ fpath = ""
    /\ fsudo = FALSE
    /\ sessions = << >>
    /\ fout = << >>
    /\ fresult = NoResult
    /\ farg = ""
    /\ clients = << >>
    /\ remoteFS = [n \in FileNames |-> << >>]
    /\ lastWrite = NoWrite

\* a file operation is called with path, sudo and one more argument: its
\* locals start empty
CallOpArg(op, first, path, sudo, arg) ==
    /\ fpc' = first
    /\ fop' = op
    /\ fpath' = path
    /\ fsudo' = sudo
    /\ farg' = arg
    /\ sessions' = << >>
    /\ clients' = << >>
    /\ fout' = << >>
    /\ fresult' = NoResult
    /\ UNCHANGED <<poolVars, connVars>>

\* a file operation that neither writes nor deletes is called
CallOp(op, first, path, sudo) ==
    /\ CallOpArg(op, first, path, sudo, "")
    /\ UNCHANGED <<remoteFS, lastWrite>>

\* the operation returns val and err; its deferred calls run
Return(ss, val, e) ==
    /\ fpc' = "idle"
    /\ fresult' = [val |-> val, err |-> e]
    /\ sessions' = DeferredClose(ss)

(***************************************************************************)
(* FileExists                                                              *)
(***************************************************************************)
FileExistsCall ==
    /\ fpc = "idle"
    /\ \E path \in FilePaths, sudo \in BOOLEAN :
          CallOp("FileExists", "fe_session", path, sudo)

\* session, err := sshClient.NewSession()
FE_NewSession ==
    /\ fpc = "fe_session"
    /\ \E ok \in BOOLEAN :
          IF ok
          THEN /\ sessions' = Append(sessions, NewSession)
               /\ fpc' = "fe_probe"
               /\ UNCHANGED fresult
          ELSE Return(sessions, FALSE, SessionErr)
    /\ UNCHANGED <<fop, fpath, fsudo, fout, farg, clients, remoteFS, lastWrite>>
    /\ UNCHANGED <<poolVars, connVars>>

\* variant: the error of the first probe is ignored
ProbeFailed_Never(e) == FALSE

\* err != nil after the first probe
ProbeFailed(e) == e # NoErr

\* err = run(session, "test -f <path>")
FE_Probe ==
    /\ fpc = "fe_probe"
    /\ \E outcome \in RunOutcomes :
          LET cmd == WithSudo("test -f " \o fpath, fsudo)
              e == run(cmd, outcome)
              ss == Ran(sessions, cmd, outcome)
          IN  IF ProbeFailed(e)
              THEN /\ sessions' = ss
                   /\ fpc' = "fe_session2"
                   /\ UNCHANGED fresult
              ELSE Return(ss, TRUE, NoErr)
    /\ UNCHANGED <<fop, fpath, fsudo, fout, farg, clients, remoteFS, lastWrite>>
    /\ UNCHANGED <<poolVars, connVars>>

\* session2, err := sshClient.NewSession()
FE_NewSession2 ==
    /\ fpc = "fe_session2"
    /\ \E ok \in BOOLEAN :
          IF ok
          THEN /\ sessions' = Append(sessions, NewSession)
               /\ fpc' = "fe_confirm"
               /\ UNCHANGED fresult
          ELSE Return(sessions, FALSE, SessionErr)
    /\ UNCHANGED <<fop, fpath, fsudo, fout, farg, clients, remoteFS, lastWrite>>
    /\ UNCHANGED <<poolVars, connVars>>

\* return false, session2.Run("test ! -f <path>")
FE_Confirm ==
    /\ fpc = "fe_confirm"
    /\ \E outcome \in RunOutcomes :
          LET cmd == WithSudo("test ! -f " \o fpath, fsudo)
          IN  Return(Ran(sessions, cmd, outcome), FALSE, sessionRun(cmd, outcome))
    /\ UNCHANGED <<fop, fpath, fsudo, fout, farg, clients, remoteFS, lastWrite>>
    /\ UNCHANGED <<poolVars, connVars>>

(***************************************************************************)
(* ReadFilePermissions                                                     *)
(***************************************************************************)
\* the permission bits of a file: four octal digits
Modes == 0..(8 * 8 * 8 * 8 - 1)

RECURSIVE Octal(_)
\* the digits `stat -c %a` prints for a mode: octal, without leading zeros
Octal(mode) ==
    IF mode < 8 THEN <<Digit(mode)>>
    ELSE Octal(mode \div 8) \o <<Digit(mode % 8)>>

\* the bytes of `stat -c %a <path>` on stdout
StatOutput(mode) == Octal(mode) \o <<"\n">>

RECURSIVE ReplaceAll(_, _, _)
\* strings.ReplaceAll(s, old, new) for a one byte old
ReplaceAll(s, old, new) ==
    IF s = << >> THEN << >>
    ELSE (IF Head(s) = old THEN new ELSE <<Head(s)>>) \o ReplaceAll(Tail(s), old, new)

\* the permissions ReadFilePermissions makes of the command's output
Permissions(output) ==
    LET permissions == ReplaceAll(output, "\n", << >>)
    IN  IF Len(permissions) > 0 /\ Len(permissions) < 4
        THEN <<"0">> \o permissions
        ELSE permissions

ReadFilePermissionsCall ==
    /\ fpc = "idle"
    /\ \E path \in FilePaths, sudo \in BOOLEAN :
          CallOp("ReadFilePermissions", "rp_session", path, sudo)

\* session, err := sshClient.NewSession()
RP_NewSession ==
    /\ fpc = "rp_session"
    /\ \E ok \in BOOLEAN :
          IF ok
          THEN /\ sessions' = Append(sessions, NewSession)
               /\ fpc' = "rp_stat"
               /\ UNCHANGED fresult
          ELSE Return(sessions, << >>, SessionErr)
    /\ UNCHANGED <<fop, fpath, fsudo, fout, farg, clients, remoteFS, lastWrite>>
    /\ UNCHANGED <<poolVars, connVars>>

\* output, err := session.Output("stat -c %a <path>") and the rest of the body
RP_Stat ==
    /\ fpc = "rp_stat"
    /\ \E outcome \in RunOutcomes :
          LET cmd == WithSudo("stat -c %a " \o fpath, fsudo)
              e == sessionRun(cmd, outcome)
              ss == Ran(sessions, cmd, outcome)
          IN  IF e # NoErr
              THEN /\ Return(ss, << >>, e)
                   /\ UNCHANGED fout
              ELSE \E mode \in Modes :
                      /\ fout' = StatOutput(mode)
                      /\ Return(ss, Permissions(StatOutput(mode)), NoErr)
    /\ UNCHANGED <<fop, fpath, fsudo, farg, clients, remoteFS, lastWrite>>
    /\ UNCHANGED <<poolVars, connVars>>

(***************************************************************************)
(* The remote host: what the commands and the transfers do to its files    *)
(***************************************************************************)
\* the file of that name exists
Exists(fs, name) == fs[name] # << >>

AllExist(fs, words) == \A i \in DOMAIN words : Exists(fs, words[i])

\* `tee <words>`: every file named on the command line gets the bytes of stdin
Tee(fs, words, content) ==
    [n \in FileNames |->
        IF \E i \in DOMAIN words : words[i] = n THEN <<content>> ELSE fs[n]]

RECURSIVE Cat(_, _)
\* `cat <words>`: the files named on the command line, one after the other
Cat(fs, words) ==
    IF words = << >> THEN ""
    ELSE fs[Head(words)][1] \o Cat(fs, Tail(words))

\* `rm <words>`: every file named on the command line is removed
Rm(fs, words) ==
    [n \in FileNames |->
        IF \E i \in DOMAIN words : words[i] = n THEN << >> ELSE fs[n]]

\* scp's CopyFile and sftp's Open and Remove take the path as one name
Put(fs, path, content) == [fs EXCEPT ![path] = <<content>>]

Remove(fs, path) == [fs EXCEPT ![path] = << >>]

\* the outcomes of a command that needs its files to exist
OutcomesOn(fs, words) ==
    IF AllExist(fs, words) THEN RunOutcomes ELSE RunOutcomes \ {"ok"}

\* the error of scp.NewClientBySSH and of sftp.NewClient
ClientErr == [kind |-> "raw", err |-> "client"]

\* the error of session.StdinPipe()
PipeErr == [kind |-> "raw", err |-> "pipe"]

\* an scp or sftp client over the ssh connection
NewClient(kind) == [kind |-> kind, open |-> TRUE]

\* session, err := sshClient.NewSession() and its error return
OpenSession(next, failVal) ==
    \E ok \in BOOLEAN :
        IF ok
        THEN /\ sessions' = Append(sessions, NewSession)
             /\ fpc' = next
             /\ UNCHANGED fresult
        ELSE Return(sessions, failVal, SessionErr)

\* GetSCPClient / GetSFTPClient and its error return
OpenClient(kind, next, failVal) ==
    \E ok \in BOOLEAN :
        IF ok
        THEN /\ clients' = Append(clients, NewClient(kind))
             /\ fpc' = next
             /\ UNCHANGED <<fresult, sessions>>
        ELSE /\ Return(sessions, failVal, ClientErr)
             /\ UNCHANGED clients

\* the return of an operation that opened an scp or sftp client: the
\* deferred Close of the client runs
ReturnClosing(val, e) ==
    /\ Return(sessions, val, e)
    /\ clients' = DeferredClose(clients)

(***************************************************************************)
(* WriteFile                                                               *)
(***************************************************************************)
\* variant: the content always goes through scp
WriteViaShell_Never(sudo) == FALSE

\* if sudo { return rc.WriteFileShell(...) }
WriteViaShell(sudo) == sudo

WriteFileCall ==
    /\ fpc = "idle"
    /\ \E content \in Contents, path \in FilePaths, sudo \in BOOLEAN :
          CallOpArg("WriteFile",
                    IF WriteViaShell(sudo) THEN "wsh_session" ELSE "scp_client",
                    path, sudo, content)
    /\ lastWrite' = NoWrite
    /\ UNCHANGED remoteFS

\* scpClient, err := rc.GetSCPClient()
SCP_Client ==
    /\ fpc = "scp_client"
    /\ OpenClient("scp", "scp_copy", "none")
    /\ UNCHANGED <<fop, fpath, fsudo, fout, farg, remoteFS, lastWrite>>
    /\ UNCHANGED <<poolVars, connVars>>

\* return scpClient.CopyFile(strings.NewReader(content), path, permissions)
SCP_Copy ==
    /\ fpc = "scp_copy"
    /\ \E outcome \in RunOutcomes :
          /\ ReturnClosing("none", sessionRun("scp", outcome))
          /\ IF outcome = "ok"
             THEN /\ remoteFS' = Put(remoteFS, fpath, farg)
                  /\ lastWrite' = [path |-> fpath, content |-> farg, sudo |-> fsudo]
             ELSE UNCHANGED <<remoteFS, lastWrite>>
    /\ UNCHANGED <<fop, fpath, fsudo, fout, farg>>
    /\ UNCHANGED <<poolVars, connVars>>

\* session, err := sshClient.NewSession() of WriteFileShell
WSH_NewSession ==
    /\ fpc = "wsh_session"
    /\ OpenSession("wsh_tee", "none")
    /\ UNCHANGED <<fop, fpath, fsudo, fout, farg, clients, remoteFS, lastWrite>>
    /\ UNCHANGED <<poolVars, connVars>>

\* the rest of WriteFileShell: the stdin pipe, the goroutine that writes the
\* content and closes stdin, and run(session, "cat /dev/stdin | sudo tee <path>")
WSH_Tee ==
    /\ fpc = "wsh_tee"
    /\ \E pipeOk \in BOOLEAN :
          IF ~pipeOk
          THEN /\ Return(sessions, "none", PipeErr)
               /\ UNCHANGED <<remoteFS, lastWrite>>
          ELSE \E outcome \in RunOutcomes :
                  LET cmd == "cat /dev/stdin | sudo tee " \o fpath
                  IN  /\ Return(Ran(sessions, cmd, outcome), "none", run(cmd, outcome))
                      /\ IF outcome = "ok"
                         THEN /\ remoteFS' = Tee(remoteFS, Fields(fpath), farg)
                              /\ lastWrite' = [path |-> fpath, content |-> farg,
                                               sudo |-> fsudo]
                         ELSE UNCHANGED <<remoteFS, lastWrite>>
    /\ UNCHANGED <<fop, fpath, fsudo, fout, farg, clients>>
    /\ UNCHANGED <<poolVars, connVars>>

(***************************************************************************)
(* ReadFile                                                                *)
(***************************************************************************)
\* if sudo { return rc.ReadFileShell(path) }
ReadViaShell(sudo) == sudo

ReadFileCall ==
    /\ fpc = "idle"
    /\ \E path \in FilePaths, sudo \in BOOLEAN :
          CallOp("ReadFile",
                 IF ReadViaShell(sudo) THEN "rsh_session" ELSE "rsftp_client",
                 path, sudo)

\* sftpClient, err := rc.GetSFTPClient()
RSFTP_Client ==
    /\ fpc = "rsftp_client"
    /\ OpenClient("sftp", "rsftp_read", "")
    /\ UNCHANGED <<fop, fpath, fsudo, fout, farg, remoteFS, lastWrite>>
    /\ UNCHANGED <<poolVars, connVars>>

\* sftpClient.Open(path), file.WriteTo(&content), return content.String(), nil
RSFTP_Read ==
    /\ fpc = "rsftp_read"
    /\ \E outcome \in OutcomesOn(remoteFS, <<fpath>>) :
          IF outcome = "ok"
          THEN ReturnClosing(remoteFS[fpath][1], NoErr)
          ELSE ReturnClosing("", sessionRun("sftp", outcome))
    /\ UNCHANGED <<fop, fpath, fsudo, fout, farg, remoteFS, lastWrite>>
    /\ UNCHANGED <<poolVars, connVars>>

\* session, err := sshClient.NewSession() of ReadFileShell
RSH_NewSession ==
    /\ fpc = "rsh_session"
    /\ OpenSession("rsh_cat", "")
    /\ UNCHANGED <<fop, fpath, fsudo, fout, farg, clients, remoteFS, lastWrite>>
    /\ UNCHANGED <<poolVars, connVars>>

\* content, err := session.Output("sudo cat <path>")
RSH_Cat ==
    /\ fpc = "rsh_cat"
    /\ \E outcome \in OutcomesOn(remoteFS, Fields(fpath)) :
          LET cmd == "sudo cat " \o fpath
              ss == Ran(sessions, cmd, outcome)
          IN  IF outcome = "ok"
              THEN Return(ss, Cat(remoteFS, Fields(fpath)), NoErr)
              ELSE Return(ss, "", sessionRun(cmd, outcome))
    /\ UNCHANGED <<fop, fpath, fsudo, fout, farg, clients, remoteFS, lastWrite>>
    /\ UNCHANGED <<poolVars, connVars>>

(***************************************************************************)
(* DeleteFile                                                              *)
(***************************************************************************)
\* if sudo { return rc.DeleteFileShell(path) }
DeleteViaShell(sudo) == sudo

DeleteFileCall ==
    /\ fpc = "idle"
    /\ \E path \in FilePaths, sudo \in BOOLEAN :
          CallOpArg("DeleteFile",
                    IF DeleteViaShell(sudo) THEN "dsh_session" ELSE "dsftp_client",
                    path, sudo, "")
    /\ lastWrite' = NoWrite
    /\ UNCHANGED remoteFS

\* sftpClient, err := rc.GetSFTPClient()
DSFTP_Client ==
    /\ fpc = "dsftp_client"
    /\ OpenClient("sftp", "dsftp_remove", "none")
    /\ UNCHANGED <<fop, fpath, fsudo, fout, farg, remoteFS, lastWrite>>
    /\ UNCHANGED <<poolVars, connVars>>

\* return sftpClient.Remove(path)
DSFTP_Remove ==
    /\ fpc = "dsftp_remove"
    /\ \E outcome \in OutcomesOn(remoteFS, <<fpath>>) :
          /\ ReturnClosing("none", sessionRun("sftp", outcome))
          /\ IF outcome = "ok"
             THEN remoteFS' = Remove(remoteFS, fpath)
             ELSE UNCHANGED remoteFS
    /\ UNCHANGED <<fop, fpath, fsudo, fout, farg, lastWrite>>
    /\ UNCHANGED <<poolVars, connVars>>

\* session, err := sshClient.NewSession() of DeleteFileShell
DSH_NewSession ==
    /\ fpc = "dsh_session"
    /\ OpenSession("dsh_rm", "none")
    /\ UNCHANGED <<fop, fpath, fsudo, fout, farg, clients, remoteFS, lastWrite>>
    /\ UNCHANGED <<poolVars, connVars>>

\* return run(session, "sudo rm <path>"); rm removes the files it finds and
\* exits non-zero when one is missing
DSH_Rm ==
    /\ fpc = "dsh_rm"
    /\ \E outcome \in OutcomesOn(remoteFS, Fields(fpath)) :
          LET cmd == "sudo rm " \o fpath
          IN  /\ Return(Ran(sessions, cmd, outcome), "none", run(cmd, outcome))
              /\ IF outcome = "transport"
                 THEN UNCHANGED remoteFS
                 ELSE remoteFS' = Rm(remoteFS, Fields(fpath))
    /\ UNCHANGED <<fop, fpath, fsudo, fout, farg, clients, lastWrite>>
    /\ UNCHANGED <<poolVars, connVars>>

(***************************************************************************)
(* ChmodFile, ChgrpFile, ChownFile                                         *)
(***************************************************************************)
PermissionArgs == {"0644", "0600"}

OwnerArgs == {"0", "1000"}

ChmodFileCall ==
    /\ fpc = "idle"
    /\ \E path \in FilePaths, permissions \in PermissionArgs, sudo \in BOOLEAN :
          CallOpArg("ChmodFile", "chmod_session", path, sudo, permissions)
    /\ UNCHANGED <<remoteFS, lastWrite>>

CHMOD_NewSession ==
    /\ fpc = "chmod_session"
    /\ OpenSession("chmod_run", "none")
    /\ UNCHANGED <<fop, fpath, fsudo, fout, farg, clients, remoteFS, lastWrite>>
    /\ UNCHANGED <<poolVars, connVars>>

\* cmd := fmt.Sprintf("chmod %s %s", permissions, path), sudo, run(session, cmd)
CHMOD_Run ==
    /\ fpc = "chmod_run"
    /\ \E outcome \in RunOutcomes :
          LET cmd == WithSudo("chmod " \o farg \o " " \o fpath, fsudo)
          IN  Return(Ran(sessions, cmd, outcome), "none", run(cmd, outcome))
    /\ UNCHANGED <<fop, fpath, fsudo, fout, farg, clients, remoteFS, lastWrite>>
    /\ UNCHANGED <<poolVars, connVars>>

ChgrpFileCall ==
    /\ fpc = "idle"
    /\ \E path \in FilePaths, group \in OwnerArgs, sudo \in BOOLEAN :
          CallOpArg("ChgrpFile", "chgrp_session", path, sudo, group)
    /\ UNCHANGED <<remoteFS, lastWrite>>

CHGRP_NewSession ==
    /\ fpc = "chgrp_session"
    /\ OpenSession("chgrp_run", "none")
    /\ UNCHANGED <<fop, fpath, fsudo, fout, farg, clients, remoteFS, lastWrite>>
    /\ UNCHANGED <<poolVars, connVars>>

\* cmd := fmt.Sprintf("chgrp %s %s", group, path), sudo, run(session, cmd)
CHGRP_Run ==
    /\ fpc = "chgrp_run"
    /\ \E outcome \in RunOutcomes :
          LET cmd == WithSudo("chgrp " \o farg \o " " \o fpath, fsudo)
          IN  Return(Ran(sessions, cmd, outcome), "none", run(cmd, outcome))
    /\ UNCHANGED <<fop, fpath, fsudo, fout, farg, clients, remoteFS, lastWrite>>
    /\ UNCHANGED <<poolVars, connVars>>

ChownFileCall ==
    /\ fpc = "idle"
    /\ \E path \in FilePaths, owner \in OwnerArgs, sudo \in BOOLEAN :
          CallOpArg("ChownFile", "chown_session", path, sudo, owner)
    /\ UNCHANGED <<remoteFS, lastWrite>>

CHOWN_NewSession ==
    /\ fpc = "chown_session"
    /\ OpenSession("chown_run", "none")
    /\ UNCHANGED <<fop, fpath, fsudo, fout, farg, clients, remoteFS, lastWrite>>
    /\ UNCHANGED <<poolVars, connVars>>

\* cmd := fmt.Sprintf("chown %s %s", owner, path), sudo, run(session, cmd)
CHOWN_Run ==
    /\ fpc = "chown_run"
    /\ \E outcome \in RunOutcomes :
          LET cmd == WithSudo("chown " \o farg \o " " \o fpath, fsudo)
          IN  Return(Ran(sessions, cmd, outcome), "none", run(cmd, outcome))
    /\ UNCHANGED <<fop, fpath, fsudo, fout, farg, clients, remoteFS, lastWrite>>
    /\ UNCHANGED <<poolVars, connVars>>

(***************************************************************************)
(* StatFile: ReadFileOwner, ReadFileGroup, ReadFileOwnerName, ReadFileGroupName *)
(***************************************************************************)
\* the format characters the four readers pass to StatFile
StatChars == {"u", "g", "U", "G"}

\* what stat prints for an owner or a group, without the newline
StatValues == {"0", "1000", "root"}

StatFileCall ==
    /\ fpc = "idle"
    /\ \E path \in FilePaths, char \in StatChars, sudo \in BOOLEAN :
          CallOpArg("StatFile", "stat_session", path, sudo, char)
    /\ UNCHANGED <<remoteFS, lastWrite>>

STAT_NewSession ==
    /\ fpc = "stat_session"
    /\ OpenSession("stat_run", << >>)
    /\ UNCHANGED <<fop, fpath, fsudo, fout, farg, clients, remoteFS, lastWrite>>
    /\ UNCHANGED <<poolVars, connVars>>

\* output, err := session.Output("stat -c %<char> <path>") and
\* strings.ReplaceAll(string(output), "\n", "")
STAT_Run ==
    /\ fpc = "stat_run"
    /\ \E outcome \in RunOutcomes :
          LET cmd == WithSudo("stat -c %" \o farg \o " " \o fpath, fsudo)
              e == sessionRun(cmd, outcome)
              ss == Ran(sessions, cmd, outcome)
          IN  IF e # NoErr
              THEN /\ Return(ss, << >>, e)
                   /\ UNCHANGED fout
              ELSE \E value \in StatValues :
                      /\ fout' = <<value, "\n">>
                      /\ Return(ss, ReplaceAll(<<value, "\n">>, "\n", << >>), NoErr)
    /\ UNCHANGED <<fop, fpath, fsudo, farg, clients, remoteFS, lastWrite>>
    /\ UNCHANGED <<poolVars, connVars>>

\* the operations a command carries out, on a host whose files stay as they are
NextFile ==
    \/ FileExistsCall
    \/ FE_NewSession
    \/ FE_Probe
    \/ FE_NewSession2
    \/ FE_Confirm
    \/ ReadFilePermissionsCall
    \/ RP_NewSession
    \/ RP_Stat
    \/ ChmodFileCall
    \/ CHMOD_NewSession
    \/ CHMOD_Run
    \/ ChgrpFileCall
    \/ CHGRP_NewSession
    \/ CHGRP_Run
    \/ ChownFileCall
    \/ CHOWN_NewSession
    \/ CHOWN_Run
    \/ StatFileCall
    \/ STAT_NewSession
    \/ STAT_Run

\* every operation that opens a session or a client, but for
\* ReadFilePermissions, whose sessions are those of StatFile
NextChannels ==
    \/ FileExistsCall
    \/ FE_NewSession
    \/ FE_Probe
    \/ FE_NewSession2
    \/ FE_Confirm
    \/ StatFileCall
    \/ STAT_NewSession
    \/ STAT_Run
    \/ WriteFileCall
    \/ SCP_Client
    \/ SCP_Copy
    \/ WSH_NewSession
    \/ WSH_Tee
    \/ ReadFileCall
    \/ RSFTP_Client
    \/ RSFTP_Read
    \/ RSH_NewSession
    \/ RSH_Cat
    \/ DeleteFileCall
    \/ DSFTP_Client
    \/ DSFTP_Remove
    \/ DSH_NewSession
    \/ DSH_Rm
    \/ ChmodFileCall
    \/ CHMOD_NewSession
    \/ CHMOD_Run
    \/ ChgrpFileCall
    \/ CHGRP_NewSession
    \/ CHGRP_Run
    \/ ChownFileCall
    \/ CHOWN_NewSession
    \/ CHOWN_Run

\* the operations that pick a transport, on a host whose files they change
NextTransfer ==
    \/ WriteFileCall
    \/ SCP_Client
    \/ SCP_Copy
    \/ WSH_NewSession
    \/ WSH_Tee
    \/ ReadFileCall
    \/ RSFTP_Client
    \/ RSFTP_Read
    \/ RSH_NewSession
    \/ RSH_Cat
    \/ DeleteFileCall
    \/ DSFTP_Client
    \/ DSFTP_Remove
    \/ DSH_NewSession
    \/ DSH_Rm
    \/ ChmodFileCall
    \/ CHMOD_NewSession
    \/ CHMOD_Run
    \/ ChgrpFileCall
    \/ CHGRP_NewSession
    \/ CHGRP_Run
    \/ ChownFileCall
    \/ CHOWN_NewSession
    \/ CHOWN_Run

(***************************************************************************)
(* Specifications                                                          *)
(***************************************************************************)
Init == InitPool /\ InitConn /\ InitFile

\* the pool under concurrent callers
Next == NextPool

Spec == Init /\ [][Next]_vars

\* sync.Mutex hands the lock to a goroutine that keeps waiting for it (starvation
\* mode), and the Go scheduler runs every runnable goroutine; callers are free
\* never to call again and never to release
Fairness ==
    \A p \in Callers :
        /\ SF_vars(AcqLock(p))
        /\ SF_vars(RelLock(p))
        /\ WF_vars(AcqCheck(p))
        /\ WF_vars(AcqBuild(p))
        /\ WF_vars(RelBody(p))

SpecFair == Spec /\ Fairness

\* three callers that release exactly what they acquired: enough for one to
\* hold a client, one to poll at the ceiling and one to call for another identity
PairedCallers == Callers \cup {"c3"}

InitPaired ==
    /\ configure
    /\ pc = [p \in PairedCallers |-> "idle"]
    /\ connID = [p \in PairedCallers |-> NoID]
    /\ held = [p \in PairedCallers |-> NoClient]
    /\ err = [p \in PairedCallers |-> "nil"]
    /\ nextClient = 1
    /\ closeCalls = << >>
    /\ builtFor = << >>
    /\ badUnlock = FALSE
    /\ panicked = FALSE
    /\ waited = [p \in PairedCallers |-> FALSE]
    /\ InitConn
    /\ InitFile

NextPaired ==
    \E p \in PairedCallers :
        \/ \E d \in Identities : GetRemoteClientCall(p, d)
        \/ AcqLock(p)
        \/ AcqCheck(p)
        \/ AcqBuild(p)
        \/ ReleaseCall(p)
        \/ RelLock(p)
        \/ RelBody(p)

\* the fairness of Fairness: a caller is at one position at a time, so one
\* condition per caller covers its two Lock steps and one its steps under the mutex
FairnessPaired ==
    \A p \in PairedCallers :
        /\ SF_vars(AcqLock(p) \/ RelLock(p))
        /\ WF_vars(AcqCheck(p) \/ AcqBuild(p) \/ RelBody(p))

SpecPaired == InitPaired /\ [][NextPaired]_vars /\ FairnessPaired

\* the identity hash and the resource Id over configurations
SpecConn == Init /\ [][NextConn]_vars

\* building and closing the connections of one client
SpecDial == Init /\ [][NextDial]_vars

\* the file operations of one RemoteClient
SpecFile == Init /\ [][NextFile]_vars

\* writing, reading, deleting and changing the files of one remote host
SpecTransfer == Init /\ [][NextTransfer]_vars

\* the sessions and clients of the file operations
SpecChannels == Init /\ [][NextChannels]_vars

(***************************************************************************)
(* Properties of the pool                                                  *)
(***************************************************************************)
BuiltClients == DOMAIN closeCalls

InAcquire(p) == pc[p] \in AcquirePCs

\* an acquire for identity d would not have to wait
SlotFree(d) == remoteClients[d] = NoClient \/ activeSessions[d] < maxSessions

\* C1: for every accepted max_sessions and every interleaving, the number of
\* outstanding acquisitions of an identity never exceeds max_sessions, the
\* state right after the first acquisition included.
C1_ActiveNeverExceedsMax ==
    \A d \in Identities : activeSessions[d] <= maxSessions

\* C2: for any sequence of acquire and release calls (release without acquire,
\* after a failed acquire, and double release included) the active-session
\* count never goes negative.
C2_ActiveNeverNegative ==
    \A d \in Identities : activeSessions[d] >= 0

\* every built client is either pooled and open, or out of the pool and
\* closed exactly once
ClosedOnceIffRemoved ==
    \A c \in BuiltClients :
        /\ closeCalls[c] <= 1
        /\ closeCalls[c] = 1 <=> remoteClients[builtFor[c]] # c

\* a step that brings a count to 0 removes the entry and closes its client
ZeroRemovesAndCloses ==
    \A d \in Identities :
        (activeSessions[d] # 0 /\ activeSessions'[d] = 0)
            => /\ remoteClients[d] # NoClient
               /\ remoteClients'[d] = NoClient
               /\ closeCalls[remoteClients[d]] = 0
               /\ closeCalls'[remoteClients[d]] = 1

\* C3: whenever a release brings an identity's count to 0, the pooled entry is
\* removed and Close is called on its client exactly once over the lifetime of
\* the client, under every interleaving.
C3_ReleaseToZeroClosesOnce ==
    /\ []ClosedOnceIffRemoved
    /\ [][ZeroRemovesAndCloses]_vars

\* a client was built, its count returned to 0, and it is closed and removed
C3_Witness ==
    \E c \in BuiltClients :
        /\ closeCalls[c] = 1
        /\ activeSessions[builtFor[c]] = 0
        /\ remoteClients[builtFor[c]] = NoClient

\* an entry exists exactly while its count is at least 1, and holds an open client
EntryIffActive ==
    \A d \in Identities :
        /\ remoteClients[d] # NoClient <=> activeSessions[d] >= 1
        /\ remoteClients[d] # NoClient => closeCalls[remoteClients[d]] = 0

\* an acquire that finds no entry calls the builder, and what it then returns
\* is the client just built, with count 1; no acquire returns a closed client
AcquireBuildsAfresh ==
    \A p \in Callers :
        /\ (pc[p] = "acq_check" /\ remoteClients[connID[p]] = NoClient /\ pc'[p] # pc[p])
               => pc'[p] = "acq_build"
        /\ (InAcquire(p) /\ pc'[p] = "idle" /\ held'[p] # NoClient)
               => /\ closeCalls'[held'[p]] = 0
                  /\ remoteClients[connID[p]] = NoClient
                        => /\ held'[p] = nextClient
                           /\ held'[p] \notin BuiltClients
                           /\ activeSessions'[connID[p]] = 1

\* C4: a pooled entry exists only while its count is at least 1; once the count
\* is back at 0 the entry is absent, and the next acquire builds again and
\* returns the new client with count 1, never the closed one.
C4_EntryOnlyWhileActive ==
    /\ []EntryIffActive
    /\ [][AcquireBuildsAfresh]_vars

\* a second client serves an identity whose first client was closed
C4_Witness ==
    \E c1, c2 \in BuiltClients :
        /\ c1 < c2
        /\ builtFor[c1] = builtFor[c2]
        /\ closeCalls[c1] = 1
        /\ remoteClients[builtFor[c2]] = c2
        /\ activeSessions[builtFor[c2]] = 1
        /\ \E p \in Callers : pc[p] = "idle" /\ held[p] = c2

\* getRemoteClient has returned to p, with a client or with the builder's error
ReturnedFromAcquire(p) ==
    pc[p] = "idle" /\ (held[p] # NoClient \/ err[p] = "build")

\* C5 as claimed: a caller that waited at the ceiling returns from acquire
\* with a client (stated for max_sessions of at least 1).
C5_WaiterReturnsWithClient ==
    maxSessions >= 1 =>
        \A p \in Callers : (pc[p] = "idle" /\ waited[p]) => held[p] # NoClient

\* C5: a caller that waits at the ceiling eventually returns from acquire, with
\* a client or with the builder's error, unless its identity is at the ceiling
\* again: no waiter polls forever once a slot has been freed and stays free.
C5_WaiterEventuallyReturns ==
    \A p \in Callers :
        (InAcquire(p) /\ waited[p])
            ~> (ReturnedFromAcquire(p) \/ (InAcquire(p) /\ ~SlotFree(connID[p])))

\* a caller that polled at the ceiling has got a client
C5_Witness ==
    \E p \in Callers : waited[p] /\ pc[p] = "idle" /\ held[p] # NoClient

\* the step in which p's connection builder returns without a client
BuilderFailed(p) ==
    pc[p] = "acq_build" /\ pc'[p] = "idle" /\ nextClient' = nextClient

\* C6: when the connection builder fails, acquire returns the error, inserts no
\* entry, leaves every count unchanged and releases the lock (a free mutex is
\* all that AcqLock and RelLock of any caller wait for).
C6_BuilderFailureLeavesPool ==
    [][\A p \in Callers :
          BuilderFailed(p)
              => /\ err'[p] = "build"
                 /\ held'[p] = NoClient
                 /\ remoteClients' = remoteClients
                 /\ remoteClients'[connID[p]] = NoClient
                 /\ activeSessions' = activeSessions
                 /\ mux = p /\ mux' = NoOne /\ ~badUnlock']_vars

\* an acquire has failed in the builder and left the pool without an entry
C6_Witness ==
    \E p \in Callers :
        /\ pc[p] = "idle" /\ err[p] = "build"
        /\ mux = NoOne
        /\ \A d \in Identities : remoteClients[d] = NoClient /\ activeSessions[d] = 0

(***************************************************************************)
(* Properties of the identity hash and the resource Id                     *)
(***************************************************************************)
\* every identity-relevant attribute of the target and of the proxy is equal
IdentityFieldsEqual(a, b) == \A key \in ConnKeys \cup ProxyKeys : a[key] = b[key]

\* C7: resourceConnectionHash(D1) = resourceConnectionHash(D2) if and only if
\* host, port, user, password, private_key, private_key_path,
\* private_key_env_var and agent of the target and of the proxy are equal.
C7_HashEqualIffFieldsEqual ==
    hashes # << >> => ((hashes[1] = hashes[2]) <=> IdentityFieldsEqual(d1, d2))

\* the identifier the claim describes
ClaimedID(d) ==
    LET target == d["conn.0.host"] \o ":" \o ToString(d["conn.0.port"])
                     \o ":" \o d["path"]
    IN  IF d["proxy_conn.#"] = 1
        THEN d["proxy_conn.0.host"] \o ":" \o ToString(d["proxy_conn.0.port"])
                 \o "|" \o target
        ELSE target

\* C8: the Id is "host:port:path" without a proxy and
\* "proxy_host:proxy_port|host:port:path" whenever a proxy is configured.
C8_ResourceIDFormat ==
    resID # "" => resID = ClaimedID(d1)

(***************************************************************************)
(* Properties of the file operations                                       *)
(***************************************************************************)
Returned(op) == fop = op /\ fpc = "idle"

RECURSIVE Zeros(_)
Zeros(n) == IF n <= 0 THEN << >> ELSE <<"0">> \o Zeros(n - 1)

\* C9: ReadFilePermissions pads an output of 1 to 3 characters with zeros to
\* exactly 4 octal digits and reports an output of 4 characters unchanged.
C9_PermissionsPaddedTo4 ==
    (Returned("ReadFilePermissions") /\ fresult.err = NoErr)
        => LET out == SelectSeq(fout, LAMBDA ch : ch # "\n")
           IN  /\ Len(out) \in 1..3 => fresult.val = Zeros(4 - Len(out)) \o out
               /\ Len(out) = 4 => fresult.val = out

Failed(session) == session.outcome \in {"exit", "transport"}

\* C10: FileExists returns (true, nil) when `test -f` exits 0; when it fails
\* the confirming `test ! -f` runs, and FileExists returns (false, nil) if
\* that succeeds and (false, error) if that fails too.
C10_FileExistsResult ==
    Returned("FileExists") =>
        /\ (Len(sessions) >= 1 /\ sessions[1].outcome = "ok")
              => /\ fresult = [val |-> TRUE, err |-> NoErr]
                 /\ Len(sessions) = 1
        /\ (Len(sessions) >= 1 /\ Failed(sessions[1]))
              => fresult.val = FALSE
        /\ (Len(sessions) = 2 /\ Failed(sessions[1]) /\ sessions[2].outcome = "ok")
              => fresult = [val |-> FALSE, err |-> NoErr]
        /\ (Len(sessions) = 2 /\ Failed(sessions[1]) /\ Failed(sessions[2]))
              => fresult.val = FALSE /\ fresult.err # NoErr
        /\ Len(sessions) = 2
              => /\ sessions[1].cmd = WithSudo("test -f " \o fpath, fsudo)
                 /\ sessions[2].cmd = WithSudo("test ! -f " \o fpath, fsudo)

\* the first probe failed, the confirming probe succeeded: (false, nil)
C10_Witness ==
    /\ Returned("FileExists")
    /\ Len(sessions) = 2
    /\ Failed(sessions[1])
    /\ sessions[2].outcome = "ok"
    /\ fresult = [val |-> FALSE, err |-> NoErr]

(***************************************************************************)
(* Properties of the file operations on a remote host                      *)
(***************************************************************************)
\* the operation opened no scp or sftp client
NoTransfer == clients = << >>

\* the operation opened no ssh session, so it ran no shell command
NoShell == sessions = << >>

\* every command the operation handed to a session is cmd
CommandsAre(cmd) ==
    \A i \in DOMAIN sessions : sessions[i].cmd # "" => sessions[i].cmd = cmd

\* every client the operation opened is of that kind
ClientsAre(kind) == \A i \in DOMAIN clients : clients[i].kind = kind

\* the operation returned after its channel was open and its pipe was set up
RanToTheEnd(op) ==
    Returned(op) /\ fresult.err \notin {SessionErr, ClientErr, PipeErr}

\* the returned operation ran exactly one shell command
RanOneCommand ==
    Len(sessions) = 1 /\ sessions[1].cmd # "" /\ NoTransfer

\* the returned operation made exactly one transfer of that kind
MadeOneTransfer(kind) ==
    Len(clients) = 1 /\ clients[1].kind = kind /\ NoShell

\* the command of chmod, chown or chgrp without sudo
ChangeCommand(verb) == verb \o " " \o farg \o " " \o fpath

\* the verb of the operation called last
ChangeVerb ==
    CASE fop = "ChmodFile" -> "chmod"
      [] fop = "ChownFile" -> "chown"
      [] fop = "ChgrpFile" -> "chgrp"

\* C11: the transport is a function of the operation and the elevation flag
\* only. chmod, chown and chgrp always run a shell command, behind sudo exactly
\* when elevation is asked for; write, read and delete run a privileged shell
\* command exactly when elevation is asked for, and otherwise copy over scp
\* (write) or use sftp (read, delete) and run no shell command.
C11_TransportByOperationAndSudo ==
    /\ fop \in {"ChmodFile", "ChownFile", "ChgrpFile"} =>
          /\ NoTransfer
          /\ CommandsAre(IF fsudo THEN "sudo " \o ChangeCommand(ChangeVerb)
                         ELSE ChangeCommand(ChangeVerb))
          /\ RanToTheEnd(fop) => RanOneCommand
    /\ fop \in {"WriteFile", "ReadFile", "DeleteFile"} =>
          IF fsudo
          THEN /\ NoTransfer
               /\ CommandsAre(CASE fop = "WriteFile" -> "cat /dev/stdin | sudo tee " \o fpath
                                [] fop = "ReadFile" -> "sudo cat " \o fpath
                                [] fop = "DeleteFile" -> "sudo rm " \o fpath)
               /\ RanToTheEnd(fop) => RanOneCommand
          ELSE /\ NoShell
               /\ ClientsAre(IF fop = "WriteFile" THEN "scp" ELSE "sftp")
               /\ RanToTheEnd(fop) =>
                     MadeOneTransfer(IF fop = "WriteFile" THEN "scp" ELSE "sftp")

\* an elevated write returned after its one shell command, with no transfer
C11_Witness ==
    /\ RanToTheEnd("WriteFile")
    /\ fsudo
    /\ fresult.err = NoErr
    /\ RanOneCommand

\* ReadFile returned content, and the last write or delete before it was a
\* WriteFile of the same path with the same sudo flag that succeeded
ReadBackAfterWrite ==
    /\ Returned("ReadFile")
    /\ fresult.err = NoErr
    /\ lastWrite # NoWrite
    /\ lastWrite.path = fpath
    /\ lastWrite.sudo = fsudo

\* C12: a WriteFile(content, path, permissions, sudo) that succeeded, followed
\* by ReadFile(path, sudo) with the same sudo flag and no write or delete in
\* between, returns exactly the content written, with sudo (shell) and
\* without (scp write, sftp read).
C12_WriteThenReadRoundTrip ==
    ReadBackAfterWrite => fresult.val = lastWrite.content

(***************************************************************************)
(* Properties of the pool: sharing, the lock, independence, release        *)
(***************************************************************************)
\* the builder returned client c and Close has not been called on it
Live(c) == c \in BuiltClients /\ closeCalls[c] = 0

\* caller p takes the step of getRemoteClient that looks the entry up
LooksUp(p) == pc[p] = "acq_check" /\ pc'[p] # "acq_check"

\* an acquire that finds an entry below the ceiling returns that entry's
\* client, adds exactly 1 to its count and builds nothing
ReusesEntry ==
    \A p \in Callers :
        LET d == connID[p] IN
        (/\ LooksUp(p)
         /\ remoteClients[d] # NoClient
         /\ activeSessions[d] < maxSessions)
        => /\ pc'[p] = "idle"
           /\ err'[p] = "nil"
           /\ held'[p] = remoteClients[d]
           /\ remoteClients' = remoteClients
           /\ activeSessions' = [activeSessions EXCEPT ![d] = activeSessions[d] + 1]
           /\ nextClient' = nextClient
           /\ closeCalls' = closeCalls

\* no identity has two clients that are built and not closed
OneLiveClientPerIdentity ==
    \A c1, c2 \in BuiltClients :
        (Live(c1) /\ Live(c2) /\ builtFor[c1] = builtFor[c2]) => c1 = c2

\* C13: an acquire for an identity whose entry has headroom returns the
\* entry's shared client and adds exactly 1 to the count without calling the
\* connection builder; so no identity ever has more than one client that is
\* built and not yet closed, whatever the interleaving.
C13_SharedClientPerIdentity ==
    [][ReusesEntry]_vars /\ []OneLiveClientPerIdentity

\* two callers hold the same client, the second got it from the entry
C13_Witness ==
    \E p, q \in Callers :
        /\ p # q
        /\ held[p] # NoClient
        /\ held[p] = held[q]
        /\ activeSessions[builtFor[held[p]]] = 2
        /\ nextClient = held[p] + 1

\* the positions in which a caller is between Lock and Unlock
LockedPCs == {"acq_check", "acq_build", "rel_body"}

\* the mutex is held by exactly the caller that is between Lock and Unlock;
\* a caller that is in no call, or waits for the mutex, does not hold it
HeldWhileInside ==
    /\ \A p \in Callers : (mux = p) <=> (pc[p] \in LockedPCs)
    /\ mux \in Callers \cup {NoOne}

\* the caller that holds the mutex can always take its next step
HolderCanStep ==
    mux # NoOne => ENABLED (AcqCheck(mux) \/ AcqBuild(mux) \/ RelBody(mux))

\* whoever waits for a free mutex can take it
LockObtainable ==
    \A p \in Callers :
        /\ (pc[p] = "acq_lock" /\ mux = NoOne) => ENABLED AcqLock(p)
        /\ (pc[p] = "rel_lock" /\ mux = NoOne) => ENABLED RelLock(p)

\* a caller that finds the ceiling goes back to Lock with the mutex released,
\* and every step that ends a call leaves the mutex free
UnlocksOnEveryPath ==
    \A p \in Callers :
        /\ (LooksUp(p) /\ pc'[p] = "acq_lock") => mux' = NoOne
        /\ (pc[p] \in LockedPCs /\ pc'[p] = "idle") => (mux = p /\ mux' = NoOne)

\* C14: a caller waiting at the ceiling releases the mutex between polls, so
\* that a release always gets the mutex; every return of getRemoteClient
\* (existing entry, new entry, builder failure) and of closeRemoteClient leaves
\* the mutex unlocked; Unlock never runs in a caller that does not hold the
\* mutex; the pool never deadlocks.
C14_LockDiscipline ==
    /\ [](HeldWhileInside /\ ~badUnlock /\ HolderCanStep /\ LockObtainable)
    /\ [][UnlocksOnEveryPath]_vars
    /\ \A p \in Callers : (pc[p] = "rel_lock") ~> (pc[p] = "idle")

\* a release holds the mutex while another caller polls at the ceiling of
\* the same identity
C14_Witness ==
    \E p, q \in Callers :
        /\ p # q
        /\ waited[p]
        /\ pc[p] = "acq_lock"
        /\ pc[q] = "rel_body"
        /\ mux = q
        /\ connID[p] = connID[q]
        /\ ~badUnlock

\* caller p is in the connection builder before and after the step: the
\* step, if any, is another caller's
StaysInBuilder(p) == pc[p] = "acq_build" /\ pc'[p] = "acq_build"

\* an acquire that finds no entry enters the builder with the mutex held
EntersBuilderLocked ==
    \A p \in Callers :
        (LooksUp(p) /\ remoteClients[connID[p]] = NoClient)
        => (pc'[p] = "acq_build" /\ mux = p /\ mux' = p)

\* while a caller is in the builder no step changes the map or a counter, and
\* no other caller gets to the lookup of an acquire or to the body of a release
NothingMovesDuringBuild ==
    \A p \in Callers :
        StaysInBuilder(p)
        => /\ remoteClients' = remoteClients
           /\ activeSessions' = activeSessions
           /\ \A q \in Callers \ {p} : pc'[q] \notin LockedPCs

\* C15: the connection builder for a new entry runs with the mutex held: from
\* the lookup that finds no entry until the builder has returned, with a client
\* or with an error, no other acquire or release, for the same or for another
\* identity, reads or changes the map or a counter.
C15_BuilderRunsLocked ==
    /\ [](\A p \in Callers : pc[p] = "acq_build" => mux = p)
    /\ [][EntersBuilderLocked /\ NothingMovesDuringBuild]_vars

\* one caller is in the builder while the other waits for the mutex with a
\* call for another identity
C15_Witness ==
    \E p, q \in Callers :
        /\ pc[p] = "acq_build"
        /\ pc[q] \in {"acq_lock", "rel_lock"}
        /\ connID[q] # connID[p]
        /\ mux = p

\* caller p takes a step of a call for identity d
StepsFor(p, d) == pc[p] # "idle" /\ connID[p] = d /\ pc'[p] # pc[p]

\* the entry and the count of an identity change only in a step of a call
\* for that identity
OnlyOwnIdentityChanges ==
    \A d \in Identities :
        (remoteClients'[d] # remoteClients[d] \/ activeSessions'[d] # activeSessions[d])
        => \E p \in DOMAIN pc : StepsFor(p, d)

\* another identity than d is at its ceiling and a caller polls for it
OtherAtCeilingPolled(d) ==
    \E e \in Identities \ {d} :
        /\ remoteClients[e] # NoClient
        /\ activeSessions[e] >= maxSessions
        /\ \E q \in DOMAIN pc : InAcquire(q) /\ connID[q] = e /\ waited[q]

\* C16: distinct identities are independent. An acquire or release for one
\* identity leaves every other identity's entry and count unchanged, and an
\* identity at its ceiling, with callers polling for it, never keeps an acquire
\* for another identity from completing.
C16_IdentitiesIndependent ==
    /\ [][OnlyOwnIdentityChanges]_vars
    /\ \A p \in PairedCallers :
          (InAcquire(p) /\ OtherAtCeilingPolled(connID[p]))
              ~> (ReturnedFromAcquire(p) \/ (InAcquire(p) /\ ~SlotFree(connID[p])))

\* a caller has got a client for one identity while the other identity is at
\* its ceiling and polled for
C16_Witness ==
    \E p \in PairedCallers :
        /\ pc[p] = "idle"
        /\ held[p] # NoClient
        /\ OtherAtCeilingPolled(builtFor[held[p]])
        /\ held[p] = nextClient - 1
        /\ maxSessions >= 1

\* caller p takes the step that is the body of closeRemoteClient
Releases(p) == pc[p] = "rel_body" /\ pc'[p] = "idle"

\* C17: a release for an identity that has no entry (without an acquire, or a
\* second release after the count reached 0) either returns an error or
\* leaves the map and every counter exactly as they were.
C17_UntrackedReleaseFailsOrNoOp ==
    [][\A p \in Callers :
          (Releases(p) /\ remoteClients[connID[p]] = NoClient)
          => \/ err'[p] # "nil"
             \/ /\ remoteClients' = remoteClients
                /\ activeSessions' = activeSessions]_vars

\* a release whose Close fails returns that error, has brought the count to 0,
\* has called Close on the entry's client and has removed the entry
CloseErrorStillRemoves ==
    \A p \in Callers :
        LET d == connID[p]
            client == remoteClients[d]
        IN  (Releases(p) /\ err'[p] = "close")
            => /\ client # NoClient
               /\ activeSessions'[d] = 0
               /\ closeCalls'[client] = closeCalls[client] + 1
               /\ remoteClients'[d] = NoClient

\* no entry of the map is a client on which Close was called, so an acquire
\* never gets such a client from the map
NoClosedClientPooled ==
    \A d \in Identities :
        remoteClients[d] # NoClient => closeCalls[remoteClients[d]] = 0

\* C18: when a release brings the count to 0 and Close fails, the error of
\* Close is returned and the entry is removed all the same, so the next acquire
\* for the identity builds a new client and does not reuse the one whose Close
\* failed.
C18_CloseFailureStillRemoves ==
    [][CloseErrorStillRemoves]_vars /\ []NoClosedClientPooled

\* a release returned the error of Close, and the identity of the client it
\* closed has a new client since
C18_Witness ==
    \E p \in Callers, c1, c2 \in BuiltClients :
        /\ err[p] = "close"
        /\ pc[p] = "idle"
        /\ c1 < c2
        /\ builtFor[c1] = builtFor[c2]
        /\ closeCalls[c1] = 1
        /\ remoteClients[builtFor[c2]] = c2

(***************************************************************************)
(* Properties of the errors of the file operations                         *)
(***************************************************************************)
\* the transport failed under the returned FileExists: a probe ended with a
\* transport failure, or the channel of the first or of the confirming probe
\* could not be opened
ProbeTransportFailed ==
    \/ \E i \in DOMAIN sessions : sessions[i].outcome = "transport"
    \/ sessions = << >>
    \/ Len(sessions) = 1 /\ sessions[1].outcome # "ok"

\* C19: a transport failure on either probe of FileExists (`test -f` or the
\* confirming `test ! -f`, a channel that cannot be opened included) comes
\* back as an error and never as (false, nil): it is told apart from an
\* absent file.
C19_TransportFailureIsError ==
    (Returned("FileExists") /\ ProbeTransportFailed) => fresult.err # NoErr

\* the last command the returned operation ran failed, and the operation
\* returned an error for it (not the error of a channel it could not open)
ReportsFailedCommand ==
    /\ fpc = "idle"
    /\ sessions # << >>
    /\ sessions[Len(sessions)].outcome \in {"exit", "transport"}
    /\ fresult.err \notin {NoErr, SessionErr, PipeErr, ClientErr}

\* the returned error is an Error with the command, the error of the ssh
\* package and the bytes of stderr
StructuredFailure ==
    LET last == sessions[Len(sessions)]
    IN  fresult.err = [kind |-> "Error", cmd |-> last.cmd, err |-> last.outcome,
                       stderr |-> StderrOf(last.outcome)]

\* C20: every file operation that runs a shell command (write, read and delete
\* with sudo, chmod, chown, chgrp, both probes of FileExists, the stat of the
\* permissions and of owner and group) reports a failed command as the same
\* structured error, which carries the command, the underlying error and the
\* captured stderr.
C20_OneFailureType ==
    ReportsFailedCommand => StructuredFailure

(***************************************************************************)
(* Properties of the sessions and clients of the file operations           *)
(***************************************************************************)
\* no session has run more than one command
OneCommandPerSession == \A i \in DOMAIN sessions : sessions[i].runs <= 1

\* a command is only ever handed to the session opened last, which has run
\* nothing before
CommandOnFreshSession ==
    \A i \in DOMAIN sessions :
        (i \in DOMAIN sessions' /\ sessions'[i].runs # sessions[i].runs)
        => (i = Len(sessions) /\ sessions[i].runs = 0 /\ sessions[i].open)

\* every session and every scp or sftp client of the operation is closed
AllClosed ==
    /\ \A i \in DOMAIN sessions : ~sessions[i].open
    /\ \A i \in DOMAIN clients : ~clients[i].open

\* C21: each command runs on a session opened for it, which runs no second
\* command, and every session and every scp or sftp client a file operation
\* opened (both sessions of FileExists included) is closed when the operation
\* has returned, with or without an error.
C21_ChannelsFreshAndClosed ==
    /\ [](OneCommandPerSession /\ (fpc = "idle" => AllClosed))
    /\ [][CommandOnFreshSession]_vars

\* FileExists returned after both probes, each on its own session, both closed
C21_Witness ==
    /\ Returned("FileExists")
    /\ Len(sessions) = 2
    /\ sessions[1].runs = 1
    /\ sessions[2].runs = 1
    /\ sessions[1].cmd # sessions[2].cmd
    /\ AllClosed

(***************************************************************************)
(* Properties of the connection establishment                              *)
(***************************************************************************)
\* the stages of a direct connection and of a connection through a proxy
DirectStages == <<"conn", "proxy_conn", "dial">>

ProxyStages == <<"conn", "proxy_conn", "dial_proxy", "tunnel", "handshake">>

\* the stages started so far are the first stages of route, in its order
StartedInOrder(route) ==
    /\ Len(stages) <= Len(route)
    /\ \A i \in DOMAIN stages : stages[i].stage = route[i]

\* every stage but the one started last has succeeded
EarlierStagesSucceeded ==
    \A i \in DOMAIN stages : i < Len(stages) => stages[i].ok

\* the call has returned
DialReturned == dpc = "idle" /\ dresult # NoDialResult

\* the stage started last failed
LastStageFailed == stages # << >> /\ ~stages[Len(stages)].ok

\* C22: the connection is routed by the presence of a proxy and built stage
\* by stage. Without a proxy_conn block the proxy descriptor comes back empty
\* without an error and the target is dialed directly; with one, the proxy is
\* dialed first, then the tunnel to the target is opened through it, then the
\* handshake with the target's authentication runs. No stage starts before
\* the one before it succeeded, and a failure of any stage makes the call
\* return an error and no client.
C22_StagedConnection ==
    /\ StartedInOrder(IF HasProxyConn(Selected) THEN ProxyStages ELSE DirectStages)
    /\ EarlierStagesSucceeded
    /\ (DialReturned /\ ~HasProxyConn(Selected)) => dresult.err # "proxy_conn"
    /\ DialReturned =>
          IF LastStageFailed
          THEN ~dresult.client /\ dresult.err = stages[Len(stages)].stage
          ELSE /\ dresult.client
               /\ dresult.err = "nil"
               /\ Len(stages) = IF HasProxyConn(Selected) THEN Len(ProxyStages)
                                                           ELSE Len(DirectStages)

\* a client was built through a proxy, all five stages done
C22_Witness ==
    /\ DialReturned
    /\ HasProxyConn(Selected)
    /\ dresult.client
    /\ Len(stages) = Len(ProxyStages)
    /\ links = [proxy |-> "open", tunnel |-> "open", target |-> "open"]

\* the connections one call dialed that are still open
OpenLinks == {l \in DOMAIN links : links[l] = "open"}

\* the call returned an error after the proxy had been dialed
FailedBehindProxy ==
    /\ DialReturned
    /\ ~dresult.client
    /\ stages[Len(stages)].stage \in {"tunnel", "handshake"}

\* the client built through a proxy has been closed
ProxiedClientClosed ==
    /\ DialReturned
    /\ dresult.client
    /\ HasProxyConn(Selected)
    /\ links.target = "closed"

\* C23: no connection of a proxied client is leaked. When the tunnel or the
\* handshake fails, the connection to the proxy (and the tunnel) is closed
\* before the call returns; when the client is closed on the release that
\* brings its count to zero, the connection to the proxy hop is closed together
\* with the connection to the target.
C23_NoProxyConnectionLeaked ==
    (FailedBehindProxy \/ ProxiedClientClosed) => OpenLinks = {}

(***************************************************************************)
(* Properties of the pool under callers that release what they acquired    *)
(***************************************************************************)
\* the callers that acquired client c and have not called release for it
HoldersOf(c) == {p \in DOMAIN held : held[p] = c}

\* the callers inside closeRemoteClient for identity d
ReleasingOf(d) == {p \in DOMAIN pc : pc[p] \in {"rel_lock", "rel_body"} /\ connID[p] = d}

\* the count of an identity is the number of callers that hold its client plus
\* the releases that have not decremented yet
CountsHoldersAndReleases ==
    \A d \in Identities :
        activeSessions[d] =
            Cardinality({p \in DOMAIN held : held[p] # NoClient /\ builtFor[held[p]] = d})
            + Cardinality(ReleasingOf(d))

\* C24: no use after close. With callers that release at most once per
\* successful acquire, a client that getRemoteClient returned is never closed
\* while a caller that acquired it has not released it: every held client is
\* open and is the pooled client of its identity.
C24_NoUseAfterClose ==
    /\ CountsHoldersAndReleases
    /\ \A c \in BuiltClients :
          HoldersOf(c) # {} => /\ closeCalls[c] = 0
                               /\ remoteClients[builtFor[c]] = c

\* an earlier client of the identity was closed on its release to zero; two
\* callers acquired the next one, one of them is releasing it under the mutex
\* while the other still holds it, open
C24_Witness ==
    \E c0, c \in BuiltClients :
        \E p, q \in PairedCallers :
            /\ c0 < c
            /\ builtFor[c0] = builtFor[c]
            /\ closeCalls[c0] = 1
            /\ p # q
            /\ held[p] = c
            /\ closeCalls[c] = 0
            /\ pc[q] = "rel_body"
            /\ connID[q] = builtFor[c]
            /\ activeSessions[builtFor[c]] = 2

====
